---- MODULE Spec2Model ----
(***************************************************************************)
(* MEDIC front end: the response pipeline of src/lib/api.tsx.              *)
(*                                                                         *)
(*   sendMessage        the Response Source Selector: one POST to the      *)
(*                      backend, then either the word-by-word stream()     *)
(*                      over the extracted answer or the fallback          *)
(*                      mockStreamResponse(content)                        *)
(*   mockStreamResponse the Local Simulator, an async generator over a     *)
(*                      canned text                                        *)
(*   stream             the async generator sendMessage builds from the    *)
(*                      remote answer                                      *)
(*   getStreamDelay     the pacing policy                                  *)
(*                                                                         *)
(* JavaScript strings are TLA+ strings; an async generator is a record     *)
(* with its suspension point (st), its locals and the variables it closes  *)
(* over.  A consumer pulls with next(); a pending sleep() is an entry of   *)
(* the stream's timer list.                                                *)
(***************************************************************************)
EXTENDS Integers, Sequences, FiniteSets

(***************************************************************************)
(* Bounds of the model.                                                    *)
(***************************************************************************)
\* longest answer string enumerated character by character
MaxLen == 3
\* Math.random() takes the values r / RandSteps, r in 0 .. RandSteps-1
RandSteps == 2
\* how often the consumer pulls again after the generator has completed
MaxEndPulls == 2
\* of two concurrent streams, how many chunks the later one delivers while
\* the earlier one is unfinished
MaxAhead == 4
\* longest answer string enumerated over the punctuation of the pacing rules
PaceLen == 3

(***************************************************************************)
(* Strings.                                                                *)
(***************************************************************************)
Char(s, i) == SubSeq(s, i, i)

\* the element of a one-element set: The({F(x) : x \in {e}}) is F(e), with e
\* evaluated once
The(S) == CHOOSE x \in S : TRUE

\* String.prototype.startsWith / endsWith / includes
startsWith(s, p) == Len(s) >= Len(p) /\ SubSeq(s, 1, Len(p)) = p

endsWith(s, p) == Len(s) >= Len(p) /\ SubSeq(s, Len(s) - Len(p) + 1, Len(s)) = p

includes(s, p) == \E k \in 1..(Len(s) - Len(p) + 1) : SubSeq(s, k, k + Len(p) - 1) = p

UpperCase == "ABCDEFGHIJKLMNOPQRSTUVWXYZ"

LowerCase == "abcdefghijklmnopqrstuvwxyz"

LowerChar(c) ==
    IF \E k \in 1..Len(UpperCase) : Char(UpperCase, k) = c
    THEN Char(LowerCase, CHOOSE k \in 1..Len(UpperCase) : Char(UpperCase, k) = c)
    ELSE c

\* String.prototype.toLowerCase (ASCII)
RECURSIVE toLowerCase(_)
toLowerCase(s) ==
    IF s = "" THEN ""
    ELSE The({LowerChar(c) \o toLowerCase(rest) : c \in {Head(s)}, rest \in {Tail(s)}})

\* the white space String.prototype.trim strips (the ASCII part of it)
IsSpace(c) == c \in {" ", "\n", "\t", "\r"}

RECURSIVE trimStart(_)
trimStart(s) ==
    IF s # "" /\ IsSpace(Head(s)) THEN The({trimStart(rest) : rest \in {Tail(s)}}) ELSE s

RECURSIVE trimEnd(_)
trimEnd(s) ==
    IF s # "" /\ IsSpace(Char(s, Len(s)))
    THEN The({trimEnd(rest) : rest \in {SubSeq(s, 1, Len(s) - 1)}})
    ELSE s

\* String.prototype.trim
trim(s) == trimEnd(trimStart(s))

\* the pieces of a string from the pieces a and b of its two halves: the
\* last piece of a and the first piece of b are one piece
JoinPieces(a, b) == SubSeq(a, 1, Len(a) - 1) \o <<a[Len(a)] \o b[1]>> \o Tail(b)

\* String.prototype.split(" "): every single space ends a piece (which may
\* be empty) and the end of s ends the last piece.  Computed by halves; the
\* halves and their pieces are bound, so that each is evaluated once.
RECURSIVE split(_)
split(s) ==
    IF Len(s) <= 1
    THEN IF s = " " THEN <<"", "">> ELSE <<s>>
    ELSE The({JoinPieces(a, b) :
                a \in {split(l) : l \in {SubSeq(s, 1, Len(s) \div 2)}},
                b \in {split(r) : r \in {SubSeq(s, Len(s) \div 2 + 1, Len(s))}}})

Digit(d) == Char("0123456789", d + 1)

\* Number.prototype.toString for a natural number
RECURSIVE NumToString(_)
NumToString(n) == IF n < 10 THEN Digit(n) ELSE NumToString(n \div 10) \o Digit(n % 10)

(***************************************************************************)
(* JSON values as response.json() returns them, and undefined.             *)
(***************************************************************************)
Undef == [t |-> "undef"]

Null == [t |-> "null"]

Bool(b) == [t |-> "bool", b |-> b]

Num(n) == [t |-> "num", n |-> n]

Str(s) == [t |-> "str", s |-> s]

Arr(a) == [t |-> "arr", a |-> a]

\* an object whose own "toString" property is not a function: calling
\* .toString() on it throws a TypeError
NoToString == [t |-> "notostring"]

Obj(text, advice, response, answer, sources, sources_used, retrieved_docs) ==
    [t |-> "obj", text |-> text, advice |-> advice, response |-> response,
     answer |-> answer, sources |-> sources, sources_used |-> sources_used,
     retrieved_docs |-> retrieved_docs]

\* mutant: only null and undefined count as no value
TruthyUnlessNullish(v) == v.t \notin {"undef", "null"}

\* ToBoolean
Truthy(v) ==
    CASE v.t = "undef" -> FALSE
      [] v.t = "null" -> FALSE
      [] v.t = "bool" -> v.b
      [] v.t = "num" -> v.n # 0
      [] v.t = "str" -> v.s # ""
      [] OTHER -> TRUE

\* a || b
Or(a, b) == IF Truthy(a) THEN a ELSE b

\* data.f : undefined on a primitive and for a key the object lacks
Get(d, f) == IF d.t = "obj" THEN d[f] ELSE Undef

ToStringThrows(v) == v.t = "notostring"

\* v.toString() of a truthy value or of ""
toString(v) ==
    CASE v.t = "str" -> v.s
      [] v.t = "num" -> NumToString(v.n)
      [] v.t = "bool" -> IF v.b THEN "true" ELSE "false"
      [] OTHER -> "[object Object]"

(***************************************************************************)
(* MOCK_RESPONSES.  The module's character set is ASCII: the warning sign  *)
(* of the headache text (two UTF-16 code units) is written "!!".  A Source *)
(* is represented by its id.                                               *)
(***************************************************************************)
HeadacheContent ==
    "## Understanding Your Headache\n"
    \o "\n"
    \o "Based on your description, here's what you should know:\n"
    \o "\n"
    \o "### Possible Causes\n"
    \o "- **Tension headache**: Most common type, often related to stress or muscle tension\n"
    \o "- **Migraine**: May include nausea, light sensitivity, or visual disturbances\n"
    \o "- **Dehydration**: A frequently overlooked cause\n"
    \o "\n"
    \o "### Recommended Actions\n"
    \o "1. **Rest** in a quiet, dark room\n"
    \o "2. **Hydrate** - drink water or electrolyte beverages\n"
    \o "3. **Over-the-counter pain relief** (if appropriate for you)\n"
    \o "4. **Apply cold or warm compress** to forehead or neck\n"
    \o "\n"
    \o "### !! Red Flags - Seek Emergency Care If:\n"
    \o "- Sudden, severe \"thunderclap\" headache\n"
    \o "- Headache with fever, stiff neck, confusion\n"
    \o "- Headache after head injury\n"
    \o "- Vision changes or weakness on one side\n"
    \o "\n"
    \o "> **Medical Disclaimer**: This information is for educational purposes only. Please consult a healthcare professional for personalized medical advice."

DefaultContent ==
    "Thank you for your question. I'm MEDIC, your AI medical assistant.\n"
    \o "\n"
    \o "### My Analysis\n"
    \o "I'll help you understand your health concern with evidence-based information.\n"
    \o "\n"
    \o "### Important Reminders\n"
    \o "- This is general health information, not a diagnosis\n"
    \o "- Always verify with a qualified healthcare provider\n"
    \o "- In emergencies, call your local emergency number immediately\n"
    \o "\n"
    \o "### What I Can Help With\n"
    \o "- Explaining medical conditions and symptoms\n"
    \o "- Providing general health education\n"
    \o "- Suggesting when to seek professional care\n"
    \o "- Offering lifestyle and wellness guidance\n"
    \o "\n"
    \o "> **Disclaimer**: I am an AI assistant and cannot provide medical diagnoses or treatment recommendations. Always consult qualified healthcare professionals for medical decisions."

\* MOCK_RESPONSES
MOCK_RESPONSES ==
    [headache |-> [content |-> HeadacheContent, sources |-> Arr(<<"src-1", "src-2">>)],
     default |-> [content |-> DefaultContent, sources |-> Arr(<<"src-default">>)]]

\* mutant: the keywords are looked for in the query as typed
SelectResponseAsTyped(query) ==
    IF includes(query, "headache") \/ includes(query, "head pain")
    THEN MOCK_RESPONSES.headache
    ELSE MOCK_RESPONSES.default

\* the responseData mockStreamResponse selects for a query
SelectResponse(query) ==
    IF \E lowerQuery \in {toLowerCase(query)} :
          includes(lowerQuery, "headache") \/ includes(lowerQuery, "head pain")
    THEN MOCK_RESPONSES.headache
    ELSE MOCK_RESPONSES.default

(***************************************************************************)
(* Pacing.                                                                 *)
(***************************************************************************)
\* Math.random() * span with Math.random() = r / RandSteps, in whole
\* milliseconds
Random(span, r) == (r * span) \div RandSteps

\* mutant: the heading test comes before the punctuation tests
getStreamDelayHeadingFirst(word, r) ==
    IF startsWith(word, "#")
    THEN 60
    ELSE IF endsWith(word, ".") \/ endsWith(word, "!") \/ endsWith(word, "?")
    THEN 80 + Random(40, r)
    ELSE IF endsWith(word, ",") \/ endsWith(word, ":")
    THEN 50 + Random(30, r)
    ELSE 15 + Random(25, r)

\* mutant: no pause of its own for headings
getStreamDelayNoHeading(word, r) ==
    IF endsWith(word, ".") \/ endsWith(word, "!") \/ endsWith(word, "?")
    THEN 80 + Random(40, r)
    ELSE IF endsWith(word, ",") \/ endsWith(word, ":")
    THEN 50 + Random(30, r)
    ELSE 15 + Random(25, r)

getStreamDelay(word, r) ==
    IF endsWith(word, ".") \/ endsWith(word, "!") \/ endsWith(word, "?")
    THEN 80 + Random(40, r)
    ELSE IF endsWith(word, ",") \/ endsWith(word, ":")
    THEN 50 + Random(30, r)
    ELSE IF startsWith(word, "#")
    THEN 60
    ELSE 15 + Random(25, r)

\* the initial processing delay of mockStreamResponse
ThinkDelay == 300

(***************************************************************************)
(* The two async generators.  A generator object is                        *)
(*   kind     "mock" (mockStreamResponse), "stream" (sendMessage.stream),  *)
(*            "none" (no generator yet)                                    *)
(*   st       where it is suspended: suspendedStart (not started),         *)
(*            awaitThink (await sleep(300)), awaitPace (await sleep(delay) *)
(*            of word i), suspendedYield (at the yield of word i),         *)
(*            suspendedEmpty (at the yield of the no-answer branch),       *)
(*            suspendedFinal (at the final yield), completed               *)
(*   query    the argument of mockStreamResponse                           *)
(*   answer   the text it streams: the closed-over answer of stream, the   *)
(*            local content of mockStreamResponse                          *)
(*   sources  the closed-over sources, or responseData.sources             *)
(*   words, i the locals of the loop (i counts from 0 as in the code)      *)
(* One step of a generator runs it from its suspension point to the next   *)
(* await, yield or return, and reports what happened.                      *)
(***************************************************************************)
NoGen ==
    [kind |-> "none", st |-> "completed", query |-> "", answer |-> "",
     sources |-> Undef, words |-> <<>>, i |-> 0]

\* calling the generator function: nothing of its body runs yet
mockStreamResponse(query) ==
    [kind |-> "mock", st |-> "suspendedStart", query |-> query, answer |-> "",
     sources |-> Undef, words |-> <<>>, i |-> 0]

stream(answer, sources) ==
    [kind |-> "stream", st |-> "suspendedStart", query |-> "", answer |-> answer,
     sources |-> sources, words |-> <<>>, i |-> 0]

Sleep(g, ms) == [gen |-> g, sleep |-> <<ms>>, yield |-> <<>>, ret |-> FALSE]

Yield(g, chunk) == [gen |-> g, sleep |-> <<>>, yield |-> <<chunk>>, ret |-> FALSE]

\* mutant: a finished generator starts over on the next pull
ReturnRestarts(g) ==
    [gen |-> [g EXCEPT !.st = "suspendedStart"], sleep |-> <<>>, yield |-> <<>>, ret |-> TRUE]

\* the generator function returns (explicitly or at the end of its body)
Return(g) ==
    [gen |-> [g EXCEPT !.st = "completed"], sleep |-> <<>>, yield |-> <<>>, ret |-> TRUE]

\* a chunk; sources is Undef on a chunk that has no sources property
Chunk(content, done, sources) == [content |-> content, done |-> done, sources |-> sources]

\* mutant: the word without the space that followed it
WordChunkNoSpace(words, i) == Chunk(words[i + 1], FALSE, Undef)

\* mutant: the last word too is followed by a space
WordChunkAlwaysSpace(words, i) == Chunk(words[i + 1] \o " ", FALSE, Undef)

\* { content: word + (i < words.length - 1 ? " " : ""), done: false }
WordChunk(words, i) ==
    Chunk(words[i + 1] \o (IF i < Len(words) - 1 THEN " " ELSE ""), FALSE, Undef)

\* mockStreamResponse: the for loop from its test on, then the final yield
MockLoop(g, r) ==
    IF g.i < Len(g.words)
    THEN Sleep([g EXCEPT !.st = "awaitPace"], getStreamDelay(g.words[g.i + 1], r))
    ELSE Yield([g EXCEPT !.st = "suspendedFinal"], Chunk("", TRUE, g.sources))

\* mutant: no initial delay, the first pull goes straight to the loop
MockNextNoThink(g, r) ==
    CASE g.st = "suspendedStart" ->
            The({MockLoop(started, r) :
                   started \in {[g EXCEPT !.answer = responseData.content,
                                          !.sources = responseData.sources,
                                          !.words = split(responseData.content),
                                          !.i = 0] :
                                responseData \in {SelectResponse(g.query)}}})
      [] g.st = "suspendedYield" -> MockLoop([g EXCEPT !.i = @ + 1], r)
      [] OTHER -> Return(g)

\* next() on a mockStreamResponse generator
MockNext(g, r) ==
    CASE g.st = "suspendedStart" -> Sleep([g EXCEPT !.st = "awaitThink"], ThinkDelay)
      [] g.st = "suspendedYield" -> MockLoop([g EXCEPT !.i = @ + 1], r)
      [] OTHER -> Return(g)

\* mutant: after a yield the simulator runs on into the next sleep without
\* waiting for the consumer's next()
MockWakeRunsOn(g, r) ==
    IF g.st = "awaitThink"
    THEN The({MockLoop(started, r) :
                started \in {[g EXCEPT !.answer = responseData.content,
                                       !.sources = responseData.sources,
                                       !.words = split(responseData.content),
                                       !.i = 0] :
                             responseData \in {SelectResponse(g.query)}}})
    ELSE IF g.i + 1 < Len(g.words)
    THEN [gen |-> [g EXCEPT !.st = "awaitPace", !.i = @ + 1],
          sleep |-> <<getStreamDelay(g.words[g.i + 2], r)>>,
          yield |-> <<WordChunk(g.words, g.i)>>,
          ret |-> FALSE]
    ELSE Yield([g EXCEPT !.st = "suspendedYield"], WordChunk(g.words, g.i))

\* the pending sleep() of a mockStreamResponse generator resolves
MockWake(g, r) ==
    IF g.st = "awaitThink"
    THEN The({MockLoop(started, r) :
                started \in {[g EXCEPT !.answer = responseData.content,
                                       !.sources = responseData.sources,
                                       !.words = split(responseData.content),
                                       !.i = 0] :
                             responseData \in {SelectResponse(g.query)}}})
    ELSE Yield([g EXCEPT !.st = "suspendedYield"], WordChunk(g.words, g.i))

\* mutant: the generator ends after the last word, without the final yield
StreamLoopNoFinal(g, r) ==
    IF g.i < Len(g.words)
    THEN Sleep([g EXCEPT !.st = "awaitPace"], getStreamDelay(g.words[g.i + 1], r))
    ELSE Return(g)

\* sendMessage.stream: the for loop from its test on, then the final yield
StreamLoop(g, r) ==
    IF g.i < Len(g.words)
    THEN Sleep([g EXCEPT !.st = "awaitPace"], getStreamDelay(g.words[g.i + 1], r))
    ELSE Yield([g EXCEPT !.st = "suspendedFinal"], Chunk("", TRUE, g.sources))

\* mutant: the test without trim()
NoAnswerNoTrim(answer) == answer = ""

\* if (!answer || answer.trim().length === 0)
NoAnswer(answer) == answer = "" \/ Len(trim(answer)) = 0

\* mutant: no return after the yield of the no-answer branch
StreamNextNoReturn(g, r) ==
    CASE g.st = "suspendedStart" ->
            IF NoAnswer(g.answer)
            THEN Yield([g EXCEPT !.st = "suspendedEmpty"], Chunk("", TRUE, g.sources))
            ELSE StreamLoop([g EXCEPT !.words = split(g.answer), !.i = 0], r)
      [] g.st = "suspendedEmpty" ->
            StreamLoop([g EXCEPT !.words = split(g.answer), !.i = 0], r)
      [] g.st = "suspendedYield" -> StreamLoop([g EXCEPT !.i = @ + 1], r)
      [] OTHER -> Return(g)

\* next() on a sendMessage.stream generator
StreamNext(g, r) ==
    CASE g.st = "suspendedStart" ->
            IF NoAnswer(g.answer)
            THEN Yield([g EXCEPT !.st = "suspendedEmpty"], Chunk("", TRUE, g.sources))
            ELSE The({StreamLoop(started, r) :
                        started \in {[g EXCEPT !.words = split(g.answer), !.i = 0]}})
      [] g.st = "suspendedYield" -> StreamLoop([g EXCEPT !.i = @ + 1], r)
      [] OTHER -> Return(g)

\* mutant: after a yield the generator runs on into the next sleep without
\* waiting for the consumer's next()
StreamWakeRunsOn(g, r) ==
    IF g.i + 1 < Len(g.words)
    THEN [gen |-> [g EXCEPT !.st = "awaitPace", !.i = @ + 1],
          sleep |-> <<getStreamDelay(g.words[g.i + 2], r)>>,
          yield |-> <<WordChunk(g.words, g.i)>>,
          ret |-> FALSE]
    ELSE Yield([g EXCEPT !.st = "suspendedYield"], WordChunk(g.words, g.i))

\* the pending sleep() of a sendMessage.stream generator resolves
StreamWake(g, r) == Yield([g EXCEPT !.st = "suspendedYield"], WordChunk(g.words, g.i))

GenNext(g, r) == IF g.kind = "mock" THEN MockNext(g, r) ELSE StreamNext(g, r)

GenWake(g, r) == IF g.kind = "mock" THEN MockWake(g, r) ELSE StreamWake(g, r)

(***************************************************************************)
(* Inputs.                                                                 *)
(***************************************************************************)
Queries ==
    {"", "I have a fever", "bad HEADACHE today", "Head Pain", "my head  pain", "Headach"}

Statuses == {200, 404, 500}

ErrorBodies == {"Internal Server Error"}

Alphabet == {"a", " ", "\n", ".", ",", "#"}

RECURSIVE StringsUpTo(_)
StringsUpTo(n) ==
    IF n = 0 THEN {""}
    ELSE LET p == StringsUpTo(n - 1) IN p \cup {s \o c : s \in p, c \in Alphabet}

\* bodies that carry only the answer field, over every short string
AnswerBodies ==
    {Obj(Undef, Undef, Undef, Str(s), so, Undef, Undef) :
        s \in StringsUpTo(MaxLen), so \in {Undef, Arr(<<"src-a">>)}}

\* bodies that combine the accepted fields
FieldBodies ==
    {Obj(tx, ad, re, an, so, su, rd) :
        tx \in {Undef, Str(""), Str("T x.")},
        ad \in {Undef, Str(""), Str("Ad vice")},
        re \in {Undef, Str(""), Num(7)},
        an \in {Undef, Str(" "), Str("Take rest.")},
        so \in {Undef, Arr(<<>>), Arr(<<"src-a">>)},
        su \in {Undef, Arr(<<>>), Arr(<<"src-b">>)},
        rd \in {Undef, Arr(<<"src-c">>)}}

\* bodies that are no object, and objects with fields of other types
OtherBodies ==
    {Null, Bool(FALSE), Num(0), Str(""), Bool(TRUE), Num(5), Str("x"),
     Obj(Undef, Undef, NoToString, Str("a"), Null, Undef, Arr(<<"src-c">>)),
     Obj(Undef, Num(0), Bool(FALSE), Null, Undef, Null, Undef)}

Bodies == AnswerBodies \cup FieldBodies \cup OtherBodies

(***************************************************************************)
(* State.                                                                  *)
(*   pc        sendMessage: idle (not called), fetch (await fetch), text   *)
(*             (await response.text()), json (await response.json()),      *)
(*             returned, raised (an exception reached the caller)          *)
(*   content   the query sendMessage was called with                       *)
(*   response  the Response of fetch                                       *)
(*   data      the parsed body                                             *)
(*   outcome   how the remote call ended: none (not yet), throw, status,   *)
(*             statusNoBody (status, and response.text() rejected),        *)
(*             badjson, falsy, tostring (.toString() threw), ok            *)
(*   log       the console.error calls                                     *)
(*   streams   per stream (sent: the generator sendMessage returned;       *)
(*             direct: a generator from a direct mockStreamResponse call;  *)
(*             earlier: the generator an earlier sendMessage returned):    *)
(*             gen, timers (pending setTimeout delays), pulling (a next()  *)
(*             is outstanding), out (chunks delivered to the consumer),    *)
(*             ended (end-of-sequence results delivered), sleepCount       *)
(*             (sleep() calls made)                                        *)
(*   requests  the fetch() calls made, in order                            *)
(*   simulatorStarts  the mockStreamResponse() calls sendMessage made      *)
(***************************************************************************)
VARIABLES pc, content, response, data, outcome, log, streams, requests, simulatorStarts,
          page, storage, window, run, input, voice

\* the state of the components: ChatPage, localStorage, the mounted
\* ChatWindow, its handleSendMessage run, ChatInput and the voice module
uiVars == <<page, storage, window, run, input, voice>>

vars == <<pc, content, response, data, outcome, log, streams, requests, simulatorStarts,
          uiVars>>

NoResponse == [status |-> 0, ok |-> FALSE]

NoStream ==
    [gen |-> NoGen, timers |-> <<>>, pulling |-> FALSE, out |-> <<>>, ended |-> 0,
     sleepCount |-> 0]

(***************************************************************************)
(* The state of the components.  Ids are numbers, 0 standing for null;     *)
(* timestamps are left out.  An absent isStreaming is FALSE and an absent  *)
(* sources or confidence is Undef.                                         *)
(***************************************************************************)
\* const [chats, setChats] = useState([]); [currentChatId] = useState(null).
\* phase: "unmounted" before the first commit's effects, "loading" between
\* them and the next render, "ready" from then on; created counts the chat
\* ids generateChatId has given out
NoPage == [phase |-> "unmounted", chats |-> <<>>, currentChatId |-> 0, created |-> 0]

\* localStorage.getItem("medic-chats") when the key is not there
NoItem == [t |-> "null", chats |-> <<>>]

\* the key after setItem(CHATS_KEY, JSON.stringify(chats)): stringify and
\* parse keep ids, titles, roles, contents and flags and drop the absent
\* (undefined) properties, which is what Undef stands for
Stored(chats) == [t |-> "item", chats |-> chats]

\* no ChatWindow is mounted.  chips is the presence of the follow-up
\* suggestions under their AnimatePresence: "none", "shown", or "exiting"
\* while their exit animation runs
NoWindow ==
    [mounted |-> FALSE, chatId |-> 0, messages |-> <<>>, isStreaming |-> FALSE,
     chips |-> "none"]

\* no handleSendMessage run.  attached: the ChatWindow instance whose
\* handleSendMessage this is, is still mounted
NoRun ==
    [phase |-> "none", attached |-> FALSE, chatId |-> 0, assistantMessageId |-> 0,
     fullContent |-> "", applied |-> 0]

\* ChatInput: useState(""), useState(""), useState(false)
NoInput == [message |-> "", transcript |-> "", isListening |-> FALSE]

\* lib/voice: let recognition = null; let isListening = false.  sessions
\* holds the state of each SpeechRecognition object made so far and
\* recognition is the index of the latest one
NoVoice == [recognition |-> 0, isListening |-> FALSE, sessions |-> <<>>]

Unmounted ==
    /\ page = NoPage
    /\ storage = NoItem
    /\ window = NoWindow
    /\ run = [sent |-> NoRun, earlier |-> NoRun]
    /\ input = NoInput
    /\ voice = NoVoice

Init ==
    /\ pc = "idle"
    /\ content = ""
    /\ response = NoResponse
    /\ data = Undef
    /\ outcome = "none"
    /\ log = <<>>
    /\ streams = [sent |-> NoStream, direct |-> NoStream, earlier |-> NoStream]
    /\ requests = <<>>
    /\ simulatorStarts = 0
    /\ Unmounted

(***************************************************************************)
(* sendMessage.                                                            *)
(***************************************************************************)
Returned(g) == [pc |-> "returned", gen |-> g]

Raised == [pc |-> "raised", gen |-> NoGen]

\* mutant: a failed status is thrown on to the caller
OnNotOkThrows(q) == Raised

\* return mockStreamResponse(content) of the !response.ok branch
OnNotOk(q) == Returned(mockStreamResponse(q))

\* mutant: a body that gave no data is streamed as an empty answer
OnNoDataEmptyStream(q) == Returned(stream("", Arr(<<>>)))

\* if (!data) return mockStreamResponse(content)
OnNoData(q) == Returned(mockStreamResponse(q))

\* mutant: the catch block starts the simulator without the query
OnCatchNoQuery(q) == Returned(mockStreamResponse(""))

\* catch (err) { ...; return mockStreamResponse(content) }
OnCatch(q) == Returned(mockStreamResponse(q))

\* (data.advice || data.response || data.answer || "")
AnswerValue(d) == Or(Or(Or(Get(d, "advice"), Get(d, "response")), Get(d, "answer")), Str(""))

\* (data.sources || data.sources_used || data.retrieved_docs || [])
SourcesValue(d) ==
    Or(Or(Or(Get(d, "sources"), Get(d, "sources_used")), Get(d, "retrieved_docs")), Arr(<<>>))

\* mutant: a parsed body without an answer is treated as a failure
OnDataEmptyFallsBack(d) ==
    IF toString(AnswerValue(d)) = ""
    THEN Returned(mockStreamResponse(""))
    ELSE Returned(stream(toString(AnswerValue(d)), SourcesValue(d)))

\* return stream(), with answer and sources bound
OnData(d) == Returned(stream(toString(AnswerValue(d)), SourcesValue(d)))

Finish(res) ==
    /\ pc' = res.pc
    /\ streams' = [streams EXCEPT !.sent.gen = res.gen]
    /\ simulatorStarts' = simulatorStarts + (IF res.gen.kind = "mock" THEN 1 ELSE 0)

\* the fetch(BACKEND_URL, {...}) call for a query
Request(q) ==
    [url |-> "http://127.0.0.1:8000/api/chat", method |-> "POST",
     body |-> [message |-> q, top_k |-> 3, explain |-> FALSE]]

\* sendMessage(content, chatId) up to await fetch(...)
Call(q) ==
    /\ pc = "idle"
    /\ pc' = "fetch"
    /\ content' = q
    /\ requests' = Append(requests, Request(q))
    /\ UNCHANGED <<response, data, outcome, log, streams, simulatorStarts, uiVars>>

\* mutant: a rejected fetch is attempted once more before falling back
FetchRejectsRetries ==
    /\ pc = "fetch"
    /\ IF Len(requests) < 2
       THEN /\ requests' = Append(requests, Request(content))
            /\ UNCHANGED <<pc, outcome, log, streams, simulatorStarts>>
       ELSE /\ outcome' = "throw"
            /\ log' = Append(log, [msg |-> "Connection failed:"])
            /\ Finish(OnCatch(content))
            /\ UNCHANGED requests
    /\ UNCHANGED <<content, response, data, uiVars>>

\* fetch rejects: the catch block
FetchRejects ==
    /\ pc = "fetch"
    /\ outcome' = "throw"
    /\ log' = Append(log, [msg |-> "Connection failed:"])
    /\ Finish(OnCatch(content))
    /\ UNCHANGED <<content, response, data, requests, uiVars>>

\* fetch resolves with a Response
FetchResolves(status) ==
    /\ pc = "fetch"
    /\ response' = [status |-> status, ok |-> status \in 200..299]
    /\ pc' = IF response'.ok THEN "json" ELSE "text"
    /\ UNCHANGED <<content, data, outcome, log, streams, requests, simulatorStarts, uiVars>>

\* !response.ok, response.text() resolves
TextResolves(body) ==
    /\ pc = "text"
    /\ outcome' = "status"
    /\ log' = Append(log, [msg |-> "Backend error:", status |-> response.status, body |-> body])
    /\ Finish(OnNotOk(content))
    /\ UNCHANGED <<content, response, data, requests, uiVars>>

\* !response.ok, response.text() rejects: .catch(() => "<no body>")
TextRejects ==
    /\ pc = "text"
    /\ outcome' = "statusNoBody"
    /\ log' = Append(log, [msg |-> "Backend error:", status |-> response.status,
                           body |-> "<no body>"])
    /\ Finish(OnNotOk(content))
    /\ UNCHANGED <<content, response, data, requests, uiVars>>

\* response.json() rejects: .catch logs and gives null
JsonRejects ==
    /\ pc = "json"
    /\ outcome' = "badjson"
    /\ data' = Null
    /\ log' = Append(log, [msg |-> "Failed to parse backend JSON:"])
    /\ Finish(OnNoData(content))
    /\ UNCHANGED <<content, response, requests, uiVars>>

\* response.json() resolves with d
JsonResolves(d) ==
    /\ pc = "json"
    /\ data' = d
    /\ IF ~Truthy(d)
       THEN /\ outcome' = "falsy"
            /\ log' = log
            /\ Finish(OnNoData(content))
       ELSE IF ToStringThrows(AnswerValue(d))
       THEN /\ outcome' = "tostring"
            /\ log' = Append(log, [msg |-> "Connection failed:"])
            /\ Finish(OnCatch(content))
       ELSE /\ outcome' = "ok"
            /\ log' = log
            /\ Finish(OnData(d))
    /\ UNCHANGED <<content, response, requests, uiVars>>

(***************************************************************************)
(* The consumer and the timers of a stream.                                *)
(***************************************************************************)
\* the stream after a generator step
Step(s, res, timers) ==
    [gen |-> res.gen,
     timers |-> timers \o res.sleep,
     pulling |-> res.yield = <<>> /\ ~res.ret,
     out |-> s.out \o res.yield,
     ended |-> s.ended + (IF res.ret THEN 1 ELSE 0),
     sleepCount |-> s.sleepCount + Len(res.sleep)]

\* mutant: the loop index is shared by all generators
PullSharedIndex(id) ==
    /\ streams[id].gen.kind # "none"
    /\ ~streams[id].pulling
    /\ streams[id].gen.st = "completed" => streams[id].ended < MaxEndPulls
    /\ \E r \in 0..(RandSteps - 1) :
          \E res \in {GenNext(streams[id].gen, r)} :
             streams' = [k \in DOMAIN streams |->
                            IF k = id THEN Step(streams[k], res, streams[k].timers)
                            ELSE [streams[k] EXCEPT !.gen.i = res.gen.i]]
    /\ UNCHANGED <<pc, content, response, data, outcome, log, requests, simulatorStarts, uiVars>>

\* the consumer calls next() and the generator runs to its next await,
\* yield or return
Pull(id) ==
    /\ streams[id].gen.kind # "none"
    /\ ~streams[id].pulling
    /\ streams[id].gen.st = "completed" => streams[id].ended < MaxEndPulls
    /\ \E r \in 0..(RandSteps - 1) :
          \E res \in {GenNext(streams[id].gen, r)} :
             streams' = [streams EXCEPT ![id] = Step(@, res, @.timers)]
    /\ UNCHANGED <<pc, content, response, data, outcome, log, requests, simulatorStarts, uiVars>>

\* the pending setTimeout of a stream fires and the generator resumes
TimerFires(id) ==
    /\ streams[id].timers # <<>>
    /\ \E r \in 0..(RandSteps - 1) :
          \E res \in {GenWake(streams[id].gen, r)} :
             streams' = [streams EXCEPT ![id] = Step(@, res, Tail(@.timers))]
    /\ UNCHANGED <<pc, content, response, data, outcome, log, requests, simulatorStarts, uiVars>>

Next ==
    \/ \E q \in Queries : Call(q)
    \/ FetchRejects
    \/ \E status \in Statuses : FetchResolves(status)
    \/ \E body \in ErrorBodies : TextResolves(body)
    \/ TextRejects
    \/ JsonRejects
    \/ \E d \in Bodies : JsonResolves(d)
    \/ Pull("sent")
    \/ TimerFires("sent")

Spec == Init /\ [][Next]_vars

(***************************************************************************)
(* A direct mockStreamResponse(query) call, consumed to its end, and then  *)
(* a sendMessage call with the same query.  The two streams share no       *)
(* state, so running one before the other loses no behaviour of either.    *)
(***************************************************************************)
Direct == streams.direct

InitFallback ==
    /\ pc = "idle"
    /\ content = ""
    /\ response = NoResponse
    /\ data = Undef
    /\ outcome = "none"
    /\ log = <<>>
    /\ \E q \in Queries :
          streams = [sent |-> NoStream,
                     direct |-> [NoStream EXCEPT !.gen = mockStreamResponse(q)],
                     earlier |-> NoStream]
    /\ requests = <<>>
    /\ simulatorStarts = 0
    /\ Unmounted

NextFallback ==
    \/ Direct.ended = 0 /\ Pull("direct")
    \/ Direct.ended = 0 /\ TimerFires("direct")
    \/ Direct.ended >= 1 /\ Call(Direct.gen.query)
    \/ Direct.ended >= 1 /\ FetchRejects
    \/ Direct.ended >= 1 /\ \E status \in Statuses : FetchResolves(status)
    \/ Direct.ended >= 1 /\ \E body \in ErrorBodies : TextResolves(body)
    \/ Direct.ended >= 1 /\ TextRejects
    \/ Direct.ended >= 1 /\ JsonRejects
    \/ Direct.ended >= 1 /\ \E d \in OtherBodies : JsonResolves(d)
    \/ Direct.ended >= 1 /\ Pull("sent")
    \/ Direct.ended >= 1 /\ TimerFires("sent")

FallbackSpec == InitFallback /\ [][NextFallback]_vars

(***************************************************************************)
(* sendMessage on answers over the characters the pacing rules look at, so *)
(* that getStreamDelay is applied to every short token; and on a rejected  *)
(* fetch, so that it is applied to the words of a canned text.             *)
(***************************************************************************)
PaceAlphabet == {"a", " ", ".", "!", "?", ",", ":", "#"}

RECURSIVE PaceStrings(_)
PaceStrings(n) ==
    IF n = 0 THEN {""}
    ELSE LET p == PaceStrings(n - 1) IN p \cup {t \o c : t \in p, c \in PaceAlphabet}

PaceBodies ==
    {Obj(Undef, Undef, Undef, Str(t), Undef, Undef, Undef) : t \in PaceStrings(PaceLen)}

NextPace ==
    \/ \E q \in {""} : Call(q)
    \/ FetchRejects
    \/ \E status \in {200} : FetchResolves(status)
    \/ \E d \in PaceBodies : JsonResolves(d)
    \/ Pull("sent")
    \/ TimerFires("sent")

PaceSpec == Init /\ [][NextPace]_vars

(***************************************************************************)
(* The consumer keeps pulling and every timer fires.                       *)
(***************************************************************************)
LiveSpec == Spec /\ WF_vars(Pull("sent")) /\ WF_vars(TimerFires("sent"))

(***************************************************************************)
(* What a consumer observes of a stream.                                   *)
(***************************************************************************)
Sent == streams.sent

(***************************************************************************)
(* Two sendMessage calls whose streams are consumed concurrently.  The     *)
(* second call is made once the first has returned its generator (the      *)
(* caller keeps it as the earlier stream); from then on the second call's  *)
(* awaits, and the pulls and timers of both streams, interleave in any     *)
(* order, the later stream delivering at most MaxAhead chunks while the    *)
(* earlier one is unfinished.                                              *)
(***************************************************************************)
Earlier == streams.earlier

ConcurrentQueries == {"", "Head Pain"}

ConcurrentBodies ==
    {Null,
     Obj(Undef, Undef, Undef, Str("a b"), Arr(<<"src-a">>), Undef, Undef),
     Obj(Undef, Str(" #. "), Undef, Undef, Undef, Arr(<<"src-b">>), Undef),
     Obj(Undef, Undef, Undef, Str(" "), Undef, Undef, Arr(<<"src-c">>))}

\* handleSendMessage runs again while the stream of its earlier run is
\* still held by that run
CallAgain(q) ==
    /\ pc = "returned"
    /\ Earlier.gen.kind = "none"
    /\ pc' = "fetch"
    /\ content' = q
    /\ response' = NoResponse
    /\ data' = Undef
    /\ outcome' = "none"
    /\ requests' = Append(requests, Request(q))
    /\ streams' = [streams EXCEPT !.earlier = streams.sent, !.sent = NoStream]
    /\ UNCHANGED <<log, simulatorStarts, uiVars>>

NextConcurrent ==
    \/ \E q \in ConcurrentQueries : Call(q)
    \/ \E q \in ConcurrentQueries : CallAgain(q)
    \/ FetchRejects
    \/ \E status \in {200} : FetchResolves(status)
    \/ \E d \in ConcurrentBodies : JsonResolves(d)
    \/ (Earlier.gen.kind = "none" \/ Earlier.ended >= 1 \/ Len(Sent.out) < MaxAhead)
          /\ Pull("sent")
    \/ TimerFires("sent")
    \/ Pull("earlier")
    \/ TimerFires("earlier")

ConcurrentSpec == Init /\ [][NextConcurrent]_vars

\* the consumer has received end-of-sequence: the chunk sequence is whole
Whole(s) == s.ended >= 1

RECURSIVE Joined(_)
Joined(chunks) ==
    IF Len(chunks) = 0 THEN ""
    ELSE IF Len(chunks) = 1 THEN chunks[1].content
    ELSE The({Joined(a) \o Joined(b) :
                a \in {SubSeq(chunks, 1, Len(chunks) \div 2)},
                b \in {SubSeq(chunks, Len(chunks) \div 2 + 1, Len(chunks))}})

\* the texts of the non-terminal chunks, concatenated in emission order
Reassembled(s) == Joined(SelectSeq(s.out, LAMBDA c : ~c.done))

DoneCount(s) == Cardinality({k \in DOMAIN s.out : s.out[k].done})

OnlySpace(a) == \A k \in 1..Len(a) : Char(a, k) \in {" ", "\n", "\t", "\r"}

(***************************************************************************)
(* C1.  As claimed: for every answer string the non-terminal chunk texts   *)
(* of its stream, concatenated in emission order, give the answer string   *)
(* back exactly.                                                           *)
(***************************************************************************)
C1_RoundTripEveryAnswer == Whole(Sent) => Reassembled(Sent) = Sent.gen.answer

\* C1 as amended: the concatenation gives the answer back exactly, runs of
\* spaces and leading and trailing spaces included, for every answer that has
\* a character other than white space (and for both canned texts); for a
\* remote answer of white space only no non-terminal chunk is emitted and
\* the concatenation is the empty string.
C1_RoundTrip ==
    Whole(Sent) =>
        Reassembled(Sent) = (IF OnlySpace(Sent.gen.answer) THEN "" ELSE Sent.gen.answer)

C1_Witness ==
    /\ Whole(Sent)
    /\ Sent.gen.kind = "stream"
    /\ Sent.gen.answer = " a "
    /\ Len(Sent.out) = 4

(***************************************************************************)
(* C2.  Every chunk sequence sendMessage produces, whatever the backend    *)
(* did, holds exactly one chunk with done = true (and never more than one  *)
(* while it is being produced).                                            *)
(***************************************************************************)
C2_ExactlyOneDone ==
    /\ DoneCount(Sent) <= 1
    /\ Whole(Sent) => DoneCount(Sent) = 1

C2_Witness ==
    /\ Whole(Sent)
    /\ outcome = "ok"
    /\ Len(Sent.out) = 3
    /\ DoneCount(Sent) = 1

(***************************************************************************)
(* C3.  The chunk with done = true has empty text and is the last chunk:   *)
(* once it is delivered the sequence never changes, and a further pull     *)
(* delivers end-of-sequence and leaves the generator completed.            *)
(***************************************************************************)
TerminalLast(s) ==
    \A k \in DOMAIN s.out : s.out[k].done => s.out[k].content = "" /\ k = Len(s.out)

C3_TerminalIsLast ==
    /\ [](TerminalLast(Sent))
    /\ [][DoneCount(Sent) >= 1 => Sent'.out = Sent.out]_vars
    /\ [][Sent'.ended > Sent.ended =>
            Sent'.out = Sent.out /\ Sent'.gen.st = "completed" /\ Sent'.timers = <<>>]_vars

C3_Witness ==
    /\ Sent.ended = 2
    /\ Len(Sent.out) >= 2
    /\ Sent.out[Len(Sent.out)].done

(***************************************************************************)
(* C4.  After a successful backend call whose extracted answer is empty or *)
(* white space only, the stream is one terminal chunk (empty text, done)   *)
(* with the extracted source list, and no sleep() is ever called.          *)
(***************************************************************************)
C4_EmptyAnswerOneChunk ==
    (outcome = "ok" /\ OnlySpace(toString(AnswerValue(data)))) =>
        /\ Sent.sleepCount = 0
        /\ Sent.timers = <<>>
        /\ Len(Sent.out) <= 1
        /\ Whole(Sent) => Sent.out = <<Chunk("", TRUE, SourcesValue(data))>>

C4_Witness ==
    /\ outcome = "ok"
    /\ toString(AnswerValue(data)) = " \n"
    /\ Whole(Sent)
    /\ Sent.out = <<Chunk("", TRUE, Arr(<<"src-a">>))>>

(***************************************************************************)
(* C5.  When fetch throws, the chunk sequence of sendMessage(query) is,    *)
(* chunk for chunk, the sequence of a direct mockStreamResponse(query)     *)
(* call: a prefix of it while it is produced, all of it at the end.        *)
(***************************************************************************)
IsPrefix(a, b) == Len(a) <= Len(b) /\ a = SubSeq(b, 1, Len(a))

C5_ThrowSameAsDirect ==
    outcome = "throw" =>
        /\ IsPrefix(Sent.out, Direct.out)
        /\ Whole(Sent) => Sent.out = Direct.out

C5_Witness ==
    /\ outcome = "throw"
    /\ content = "bad HEADACHE today"
    /\ Whole(Sent)
    /\ Whole(Direct)
    /\ Len(Sent.out) > 100

(***************************************************************************)
(* C6.  On a non-success status sendMessage raises nothing and returns the *)
(* Local Simulator stream for the same query (its chunks are the selected  *)
(* canned text and sources), also when reading the body fails, in which    *)
(* case the placeholder is what is logged.                                 *)
(***************************************************************************)
LastLog == log[Len(log)]

\* the stream sendMessage returned is the Local Simulator's for the query
SimulatorStream ==
    /\ pc = "returned"
    /\ Sent.gen.kind = "mock"
    /\ Sent.gen.query = content
    /\ Whole(Sent) =>
          /\ Reassembled(Sent) = SelectResponse(content).content
          /\ Sent.out[Len(Sent.out)] = Chunk("", TRUE, SelectResponse(content).sources)

C6_StatusFallsBack ==
    /\ pc # "raised"
    /\ pc = "text" => ~response.ok
    /\ outcome \in {"status", "statusNoBody"} =>
          /\ SimulatorStream
          /\ LastLog.msg = "Backend error:" /\ LastLog.status = response.status
    /\ outcome = "statusNoBody" => LastLog.body = "<no body>"

C6_Witness ==
    /\ outcome = "statusNoBody"
    /\ response.status = 500
    /\ content = "Head Pain"
    /\ Whole(Sent)

(***************************************************************************)
(* C7.  On a success status with a body that does not parse as JSON,       *)
(* sendMessage raises nothing and returns the Local Simulator stream for   *)
(* the same query.                                                         *)
(***************************************************************************)
C7_BadJsonFallsBack ==
    /\ pc # "raised"
    /\ outcome = "badjson" => response.ok /\ SimulatorStream

C7_Witness ==
    /\ outcome = "badjson"
    /\ response.status = 200
    /\ content = "I have a fever"
    /\ Whole(Sent)

(***************************************************************************)
(* C8.  Whatever the remote call did, sendMessage raises nothing and       *)
(* returns a generator, and a consumer that keeps pulling, with every      *)
(* timer firing, receives the chunk with done = true.                      *)
(***************************************************************************)
HasTerminal(s) == \E k \in DOMAIN s.out : s.out[k].done

C8_AlwaysCompletes ==
    /\ [](pc # "raised")
    /\ [](outcome # "none" => pc = "returned" /\ Sent.gen.kind # "none")
    /\ (pc = "returned") ~> HasTerminal(Sent)

C8_Witness ==
    /\ outcome = "tostring"
    /\ HasTerminal(Sent)
    /\ Len(Sent.out) > 50

(***************************************************************************)
(* C9.  As claimed: on a parsed response the answer sendMessage streams is *)
(* the value of the first non-empty field in the order text, advice,       *)
(* response, answer, and the empty string if there is none.                *)
(***************************************************************************)
\* the first value of a list of field values that is truthy, else dflt
RECURSIVE FirstNonEmpty(_, _)
FirstNonEmpty(values, dflt) ==
    IF values = <<>> THEN dflt
    ELSE IF Truthy(Head(values)) THEN Head(values)
    ELSE FirstNonEmpty(Tail(values), dflt)

ClaimedAnswer(d) ==
    toString(FirstNonEmpty(<<Get(d, "text"), Get(d, "advice"), Get(d, "response"),
                             Get(d, "answer")>>, Str("")))

C9_AnswerTextFirst ==
    outcome = "ok" =>
        /\ Sent.gen.kind = "stream"
        /\ Sent.gen.answer = ClaimedAnswer(data)
        /\ (Whole(Sent) /\ ~OnlySpace(ClaimedAnswer(data))) =>
              Reassembled(Sent) = ClaimedAnswer(data)

(***************************************************************************)
(* C10.  As claimed: on a parsed response the sources of the terminal      *)
(* chunk are the first non-empty list in the order sources, sources_used,  *)
(* retrieved_docs, and the empty list if there is none; an empty sources   *)
(* array does not hide a later non-empty list.                             *)
(***************************************************************************)
NonEmptyList(v) == v.t = "arr" /\ Len(v.a) > 0

ClaimedSources(d) ==
    IF NonEmptyList(Get(d, "sources")) THEN Get(d, "sources")
    ELSE IF NonEmptyList(Get(d, "sources_used")) THEN Get(d, "sources_used")
    ELSE IF NonEmptyList(Get(d, "retrieved_docs")) THEN Get(d, "retrieved_docs")
    ELSE Arr(<<>>)

C10_SourcesFirstNonEmpty ==
    (outcome = "ok" /\ HasTerminal(Sent)) =>
        Sent.out[Len(Sent.out)].sources = ClaimedSources(data)

(***************************************************************************)
(* C11.  A parsed response that is a JSON object without any of the answer *)
(* fields and/or without any of the sources fields is no failure: nothing  *)
(* is logged, sendMessage returns its own stream and not the Local         *)
(* Simulator, and the answer is the empty string and/or the source list is *)
(* the empty list.  (For an object without sources fields the answer value *)
(* is one whose toString can be called.)                                   *)
(***************************************************************************)
AnswerFields == {"text", "advice", "response", "answer"}

SourcesFields == {"sources", "sources_used", "retrieved_docs"}

Lacks(d, fields) == d.t = "obj" /\ \A f \in fields : Get(d, f) = Undef

Keywords == {"headache", "head pain"}

\* some stretch of the query is a keyword, letter case apart
HoldsKeyword(q) ==
    \E w \in Keywords : \E k \in 1..Len(q) :
        /\ k + Len(w) - 1 <= Len(q)
        /\ toLowerCase(SubSeq(q, k, k + Len(w) - 1)) = w

ClaimedPair(q) ==
    IF HoldsKeyword(q)
    THEN [content |-> HeadacheContent, sources |-> Arr(<<"src-1", "src-2">>)]
    ELSE [content |-> DefaultContent, sources |-> Arr(<<"src-default">>)]

SamePair(s) ==
    s.gen.kind = "mock" =>
        \E pair \in {ClaimedPair(s.gen.query)} :
            /\ s.gen.st \notin {"suspendedStart", "awaitThink"} =>
                  s.gen.answer = pair.content /\ s.gen.sources = pair.sources
            /\ HasTerminal(s) =>
                  /\ Reassembled(s) = pair.content
                  /\ s.out[Len(s.out)].sources = pair.sources

C12_SelectsByKeyword == SamePair(Direct) /\ SamePair(Sent)

C12_Witness ==
    /\ Whole(Direct)
    /\ Direct.gen.query = "bad HEADACHE today"
    /\ Reassembled(Direct) = HeadacheContent
    /\ Whole(Sent)
    /\ Sent.gen.kind = "mock"
    /\ Sent.out = Direct.out

(***************************************************************************)
(* C13.  One execution of sendMessage issues exactly one network request:  *)
(* none is issued once the call has been answered or has failed, the Local *)
(* Simulator is started at most once, and only after a failure, and no     *)
(* request follows the start of the Local Simulator or any chunk pull.     *)
(***************************************************************************)
Failures == {"throw", "status", "statusNoBody", "badjson", "falsy", "tostring"}

C13_OneRequestNoRetry ==
    /\ [](Len(requests) = (IF pc = "idle" THEN 0 ELSE 1))
    /\ [](\A k \in DOMAIN requests : requests[k].body.message = content)
    /\ [](simulatorStarts = (IF outcome \in Failures THEN 1 ELSE 0))
    /\ [](simulatorStarts = 1 <=> Sent.gen.kind = "mock")
    /\ [][pc # "idle" => requests' = requests]_vars
    /\ [][outcome # "none" => simulatorStarts' = simulatorStarts /\ pc' = pc]_vars

C13_Witness ==
    /\ outcome = "status"
    /\ Len(requests) = 1
    /\ simulatorStarts = 1
    /\ Whole(Sent)

(***************************************************************************)
(* C14.  Of two sendMessage calls whose streams are pulled concurrently,   *)
(* in any interleaving, each delivers exactly the chunk sequence it        *)
(* delivers alone: the word chunks of its own answer in order and then its *)
(* own terminal chunk, none missing, none added, none out of place.        *)
(***************************************************************************)
\* the text and the sources a generator was started for
OwnText(g) == IF g.kind = "mock" THEN ClaimedPair(g.query).content ELSE g.answer

OwnSources(g) == IF g.kind = "mock" THEN ClaimedPair(g.query).sources ELSE g.sources

Started(g) == g.st \notin {"suspendedStart", "awaitThink"}

\* the stream has no word chunks: a remote answer of white space only
Wordless(g) == g.kind = "stream" /\ OnlySpace(g.answer)

\* the k-th chunk of a stream that runs alone, from the words of its text
AloneChunk(g, k) ==
    IF ~Wordless(g) /\ k <= Len(g.words)
    THEN Chunk(g.words[k] \o (IF k < Len(g.words) THEN " " ELSE ""), FALSE, Undef)
    ELSE Chunk("", TRUE, g.sources)

AloneLen(g) == IF Wordless(g) THEN 1 ELSE Len(g.words) + 1

\* the words and sources a generator works on are those of its own text;
\* the chunk delivered last is the one a run alone delivers at that place;
\* at the end no chunk is missing
DeliversAlone(s) ==
    s.gen.kind # "none" =>
        /\ (s.gen.st = "awaitPace" /\ s.gen.i = 0) =>
              (s.gen.words = split(OwnText(s.gen)) /\ s.gen.sources = OwnSources(s.gen))
        /\ Len(s.out) <= AloneLen(s.gen)
        /\ \A k \in {Len(s.out)} \ {0} : s.out[k] = AloneChunk(s.gen, k)
        /\ Whole(s) => Len(s.out) = AloneLen(s.gen)

\* from one state to the next a stream keeps its text, words and sources,
\* and its chunk sequence stays or grows by one chunk at its end
Continues(s, t) ==
    /\ t.gen.kind = s.gen.kind
    /\ t.gen.query = s.gen.query
    /\ Started(s.gen) =>
          (t.gen.answer = s.gen.answer /\ t.gen.words = s.gen.words
             /\ t.gen.sources = s.gen.sources)
    /\ Len(t.out) \in {Len(s.out), Len(s.out) + 1}
    /\ SubSeq(t.out, 1, Len(s.out)) = s.out

\* a step keeps each stream what it was; the earlier stream is the one the
\* first call returned
StreamsContinue ==
    /\ Earlier.gen.kind # "none" => Continues(Earlier, Earlier')
    /\ (Earlier.gen.kind = "none" /\ Earlier'.gen.kind # "none") => Earlier' = Sent
    /\ (Sent.gen.kind # "none" /\ Sent'.gen.kind # "none") => Continues(Sent, Sent')

C14_ConcurrentIndependent ==
    /\ [](DeliversAlone(Sent) /\ DeliversAlone(Earlier))
    /\ [][StreamsContinue]_vars

C14_Witness ==
    /\ Earlier.gen.kind = "mock"
    /\ Sent.gen.kind = "mock"
    /\ Earlier.gen.query = "Head Pain"
    /\ Sent.gen.query = "Head Pain"
    /\ Len(Earlier.out) = 100
    /\ Len(Sent.out) = 3
    /\ Earlier.timers # <<>>
    /\ Sent.timers # <<>>

(***************************************************************************)
(* C15.  The delay getStreamDelay returns for a token lies in the range of *)
(* the token's class: 80 <= d < 120 if it ends with ".", "!" or "?";       *)
(* 50 <= d < 80 if it ends with "," or ":"; 15 <= d < 40 if it has none of *)
(* these endings and does not start with "#".  Every pacing delay lies in  *)
(* 15 <= d < 120, and one pacing delay is pending at a time.               *)
(***************************************************************************)
\* the token a generator is pacing
PaceWord(s) == s.gen.words[s.gen.i + 1]

LastChar(w) == IF w = "" THEN "" ELSE Char(w, Len(w))

FirstChar(w) == IF w = "" THEN "" ELSE Char(w, 1)

EndsSentence(w) == LastChar(w) \in {".", "!", "?"}

EndsClause(w) == LastChar(w) \in {",", ":"}

C15_DelayInClassRange ==
    Sent.gen.st = "awaitPace" =>
        \E w \in {PaceWord(Sent)} :
            /\ Len(Sent.timers) = 1
            /\ EndsSentence(w) => Sent.timers[1] \in 80..119
            /\ EndsClause(w) => Sent.timers[1] \in 50..79
            /\ (~EndsSentence(w) /\ ~EndsClause(w) /\ FirstChar(w) # "#") =>
                  Sent.timers[1] \in 15..39
            /\ Sent.timers[1] \in 15..119

C15_Witness ==
    /\ Sent.gen.st = "awaitPace"
    /\ PaceWord(Sent) = "#a!"
    /\ Sent.timers[1] > 80

(***************************************************************************)
(* C16.  As claimed: the pacing delay of a token that starts with "#" is   *)
(* exactly 60 ms, whatever character the token ends with.                  *)
(***************************************************************************)
C16_HeadingAlwaysSixty ==
    (Sent.gen.st = "awaitPace" /\ FirstChar(PaceWord(Sent)) = "#") => Sent.timers = <<60>>

\* C16 as amended: the pacing delay of a token that starts with "#" and
\* does not end with ".", "!", "?", "," or ":" is exactly 60 ms; a token
\* that starts with "#" and has one of these endings gets the delay of the
\* ending's class.
C16_HeadingSixty ==
    (Sent.gen.st = "awaitPace" /\ FirstChar(PaceWord(Sent)) = "#") =>
        \E w \in {PaceWord(Sent)} :
            /\ (~EndsSentence(w) /\ ~EndsClause(w)) => Sent.timers = <<60>>
            /\ EndsSentence(w) => (Len(Sent.timers) = 1 /\ Sent.timers[1] \in 80..119)
            /\ EndsClause(w) => (Len(Sent.timers) = 1 /\ Sent.timers[1] \in 50..79)

C16_Witness ==
    /\ Sent.gen.st = "awaitPace"
    /\ Sent.gen.answer = ". #"
    /\ PaceWord(Sent) = "#"
    /\ Sent.timers = <<60>>

(***************************************************************************)
(* C17.  With t1 .. tn the tokens of the answer split on single spaces     *)
(* (the pieces without a space of which the answer is t1 " " t2 " " .. tn),*)
(* the i-th non-terminal chunk delivered is ti and one space when i < n,   *)
(* and tn when i = n; every non-terminal chunk has done = false and no     *)
(* sources, and the source list is on the terminal chunk.  (An answer of   *)
(* white space only has no non-terminal chunk.)                            *)
(***************************************************************************)
SpaceFree(t) == \A k \in 1..Len(t) : Char(t, k) # " "

\* a token and the one space that followed it
TokenAndSpace(c) ==
    Len(c) >= 1 /\ Char(c, Len(c)) = " " /\ SpaceFree(SubSeq(c, 1, Len(c) - 1))

\* the tokens of a short text, read off from its first space on
RECURSIVE Tokens(_)
Tokens(t) ==
    IF SpaceFree(t) THEN <<t>>
    ELSE LET p == CHOOSE k \in 1..Len(t) : Char(t, k) = " " /\ SpaceFree(SubSeq(t, 1, k - 1))
         IN  <<SubSeq(t, 1, p - 1)>> \o Tokens(SubSeq(t, p + 1, Len(t)))

\* the chunks delivered so far are token chunks, none done, none with
\* sources, but for the last, which may be the terminal chunk
TokenChunksSoFar(s) ==
    \A k \in DOMAIN s.out :
        IF s.out[k].done
        THEN k = Len(s.out) /\ s.out[k] = Chunk("", TRUE, s.gen.sources)
        ELSE /\ s.out[k].sources = Undef
             /\ TokenAndSpace(s.out[k].content) \/ SpaceFree(s.out[k].content)

\* the whole sequence: n token chunks, the first n - 1 with their space, the
\* n-th without, together the answer
TokenChunks(s) ==
    \E n \in {Len(s.out) - 1} :
        /\ n >= 1
        /\ \A i \in 1..(n - 1) : TokenAndSpace(s.out[i].content)
        /\ SpaceFree(s.out[n].content)
        /\ Reassembled(s) = s.gen.answer
        /\ s.gen.kind = "stream" =>
              \E t \in {Tokens(s.gen.answer)} :
                  /\ Len(t) = n
                  /\ \A i \in 1..n :
                        s.out[i].content = t[i] \o (IF i < n THEN " " ELSE "")

C18_OnlyTerminalEmpty ==
    \A k \in DOMAIN Sent.out : Sent.out[k].content = "" <=> Sent.out[k].done

(***************************************************************************)
(* C19.  Chunks are emitted in token order, one at a time.  The pacing     *)
(* delay of a token starts only when the chunks of all tokens before it    *)
(* have been delivered and the consumer has asked for the next chunk; a    *)
(* word chunk is emitted only by the end of its own token's delay; and a   *)
(* stream never has two delays pending.                                    *)
(***************************************************************************)
OneDelay(s) ==
    /\ Len(s.timers) <= 1
    /\ s.timers # <<>> => (s.pulling /\ s.gen.st \in {"awaitThink", "awaitPace"})
    /\ s.gen.st = "awaitPace" =>
          (Len(s.timers) = 1 /\ s.pulling /\ Len(s.out) = s.gen.i)

\* a step that starts a pacing delay is the consumer's request (or, for the
\* first token of the simulator, the end of the thinking delay, the request
\* outstanding), and delivers nothing
DelayStarts(s, t) ==
    (t.gen.st = "awaitPace" /\ s.gen.st # "awaitPace") =>
        /\ t.out = s.out
        /\ Len(s.out) = t.gen.i
        /\ IF s.gen.st = "awaitThink" THEN s.pulling /\ t.gen.i = 0 ELSE ~s.pulling
        /\ t.pulling

\* a step that delivers a word chunk is the end of the delay of that word,
\* the next one in token order
ChunkAfterDelay(s, t) ==
    (Len(t.out) > Len(s.out) /\ ~t.out[Len(t.out)].done) =>
        /\ s.gen.st = "awaitPace" /\ s.timers # <<>> /\ t.timers = <<>>
        /\ Len(t.out) = Len(s.out) + 1
        /\ Len(t.out) = s.gen.i + 1
        /\ t.out[Len(t.out)].content =
              PaceWord(s) \o (IF s.gen.i + 1 < Len(s.gen.words) THEN " " ELSE "")
        /\ ~t.pulling

C19_OneAtATime ==
    /\ [](OneDelay(Sent))
    /\ [][DelayStarts(Sent, Sent')]_vars
    /\ [][ChunkAfterDelay(Sent, Sent')]_vars

C19_Witness ==
    /\ Sent.gen.kind = "stream"
    /\ Sent.gen.st = "awaitPace"
    /\ Sent.gen.i = 2
    /\ Len(Sent.out) = 2
    /\ Sent.timers = <<60>>

(***************************************************************************)
(* C20.  A Local Simulator stream takes the thinking delay of 300 ms       *)
(* exactly once, on the first pull; the delay ends before the pacing delay *)
(* of the first token starts and before any chunk is emitted; the stream   *)
(* then delivers the word chunks of the canned text and ends with the      *)
(* terminal chunk that carries the canned sources.                         *)
(***************************************************************************)
\* the thinking delay is pending only in a stream that has been pulled once
\* and has delivered nothing; it is the first sleep of the stream
Thinking(s) ==
    /\ s.gen.st = "suspendedStart" => (s.sleepCount = 0 /\ s.timers = <<>> /\ s.out = <<>>)
    /\ s.gen.st = "awaitThink" =>
          (s.timers = <<300>> /\ s.pulling /\ s.out = <<>> /\ s.sleepCount = 1)
    /\ s.gen.st \notin {"suspendedStart", "awaitThink"} =>
          (s.sleepCount >= 2 /\ \A k \in DOMAIN s.timers : s.timers[k] < 300)
    /\ Len(s.out) > 0 =>
          s.sleepCount = 1 + Len(SelectSeq(s.out, LAMBDA c : ~c.done))
                           + (IF s.gen.st = "awaitPace" THEN 1 ELSE 0)
    /\ Whole(s) =>
          /\ Reassembled(s) = SelectResponse(s.gen.query).content
          /\ s.out[Len(s.out)] = Chunk("", TRUE, SelectResponse(s.gen.query).sources)

\* the first pull starts the thinking delay and nothing else does; its end
\* starts the pacing delay of the first token
ThinksOnce(s, t) ==
    /\ (s.gen.st = "suspendedStart" /\ t # s) =>
          (~s.pulling /\ t.gen.st = "awaitThink" /\ t.timers = <<300>>)
    /\ t.gen.st = "awaitThink" => s.gen.st \in {"suspendedStart", "awaitThink"}
    /\ (s.gen.st = "awaitThink" /\ t # s) =>
          /\ t.gen.st = "awaitPace" /\ t.gen.i = 0
          /\ Len(t.timers) = 1 /\ t.timers[1] < 300
          /\ t.out = <<>>

C20_ThinkOnceThenStream ==
    /\ [](Sent.gen.kind = "mock" => Thinking(Sent))
    /\ [][(Sent.gen.kind = "mock" /\ Sent'.gen.kind = "mock") => ThinksOnce(Sent, Sent')]_vars

C20_Witness ==
    /\ Sent.gen.kind = "mock"
    /\ content = "Head Pain"
    /\ Whole(Sent)
    /\ Sent.sleepCount = Len(Sent.out)
    /\ Sent.out[Len(Sent.out)].sources = Arr(<<"src-1", "src-2">>)

(***************************************************************************)
(* C21.  A consumer that stops pulling after a chunk: from then on the     *)
(* stream does not change (no further chunk, no error, no new timer, no    *)
(* advance to the next token), because between the delivery of a chunk and *)
(* the next request no timer is pending and only the request can move the  *)
(* generator.  A stream never has more than one timer pending, and that    *)
(* one only while a request is outstanding.                                *)
(***************************************************************************)
\* no request outstanding: nothing is pending and no timer can fire
Idle(s) == ~s.pulling => (s.timers = <<>> /\ s.gen.st # "awaitPace" /\ s.gen.st # "awaitThink")

\* the only step of a stream without an outstanding request is a request
OnlyOnRequest(s, t) ==
    (s.gen.kind # "none" /\ ~s.pulling /\ t # s) =>
        /\ t.gen.query = s.gen.query /\ t.gen.answer = s.gen.answer
        /\ \/ t.pulling /\ Len(t.timers) = 1 /\ t.out = s.out
           \/ t.out = Append(s.out, Chunk("", TRUE, s.gen.sources))
           \/ t.ended = s.ended + 1 /\ t.out = s.out

\* a generator moves to the next token only on a request
NextTokenOnRequest(s, t) ==
    (s.gen.kind # "none" /\ t.gen.i # s.gen.i) => ~s.pulling

C21_AbandonedStreamStops ==
    /\ [](Idle(Sent) /\ Len(Sent.timers) <= 1 /\ pc # "raised")
    /\ [](~Sent.pulling => ~ENABLED TimerFires("sent"))
    /\ [][OnlyOnRequest(Sent, Sent')]_vars
    /\ [][NextTokenOnRequest(Sent, Sent')]_vars

C21_Witness ==
    /\ Sent.gen.kind = "stream"
    /\ Sent.gen.st = "suspendedYield"
    /\ Len(Sent.out) = 1
    /\ Len(Sent.gen.words) = 3
    /\ ~Sent.pulling
    /\ Sent.timers = <<>>

(***************************************************************************)
(* C24.  A success status with a body that parses to a falsy value (null,  *)
(* false, 0, the empty string) is treated like a failure: sendMessage      *)
(* returns the Local Simulator stream for the query and streams no empty   *)
(* answer.                                                                 *)
(***************************************************************************)
FalsyValues == {Null, Bool(FALSE), Num(0), Str("")}

C24_FalsyBodyFallsBack ==
    /\ (pc = "returned" /\ response.ok /\ data \in FalsyValues) =>
          (outcome \in {"falsy", "badjson"} /\ SimulatorStream /\ simulatorStarts = 1)
    /\ outcome = "falsy" => (response.ok /\ data \in FalsyValues)

C24_Witness ==
    /\ outcome = "falsy"
    /\ data = Num(0)
    /\ content = "Head Pain"
    /\ Whole(Sent)
    /\ Reassembled(Sent) = HeadacheContent

(***************************************************************************)
(* ChatInput and the voice module.                                         *)
(***************************************************************************)
MaxRecordings == 3

MaxSpoken == 2

\* what the recognizer hears
Transcripts == {"a", "b"}

sendVars == <<pc, content, response, data, outcome, log, streams, requests, simulatorStarts>>

\* prev ? `${prev} ${transcript}` : transcript
AppendTranscript(prev, t) == IF prev # "" THEN prev \o " " \o t ELSE t

\* startRecording where speech recognition is supported: a new
\* SpeechRecognition object is started and the module flag set
startRecording(v) ==
    [recognition |-> Len(v.sessions) + 1, isListening |-> TRUE,
     sessions |-> Append(v.sessions, "running")]

\* stopRecording: if (recognition && isListening) { recognition.stop(); ... }
stopRecording(v) ==
    IF v.recognition # 0 /\ v.isListening
    THEN [v EXCEPT !.isListening = FALSE,
                   !.sessions[v.recognition] = IF @ = "running" THEN "stopping" ELSE @]
    ELSE v

\* a click on the microphone button (rendered when sttSupported)
toggleListening ==
    /\ IF input.isListening
       THEN /\ voice' = stopRecording(voice)
            /\ input' = [input EXCEPT
                            !.isListening = FALSE,
                            !.message = IF input.transcript # ""
                                        THEN AppendTranscript(@, input.transcript) ELSE @,
                            !.transcript = ""]
       ELSE /\ Len(voice.sessions) < MaxRecordings
            /\ voice' = startRecording(voice)
            /\ input' = [input EXCEPT !.isListening = TRUE]
    /\ UNCHANGED <<sendVars, page, storage, window, run>>

\* recognition.onresult with one result, handed to ChatInput's callback
OnResult(r, t, isFinal) ==
    /\ r \in DOMAIN voice.sessions
    /\ voice.sessions[r] \in {"running", "stopping"}
    /\ Len(input.message) < MaxSpoken
    /\ input' = [input EXCEPT
                    !.transcript = IF isFinal THEN "" ELSE t,
                    !.message = IF isFinal THEN AppendTranscript(@, t) ELSE @]
    /\ UNCHANGED <<sendVars, page, storage, window, run, voice>>

\* recognition.onerror; the recognizer then ends
OnError(r) ==
    /\ r \in DOMAIN voice.sessions
    /\ voice.sessions[r] = "running"
    /\ voice' = [voice EXCEPT !.isListening = FALSE, !.sessions[r] = "stopping"]
    /\ UNCHANGED <<sendVars, page, storage, window, run, input>>

\* recognition.onend, after stop(), after an error or by itself
OnEnd(r) ==
    /\ r \in DOMAIN voice.sessions
    /\ voice.sessions[r] \in {"running", "stopping"}
    /\ voice' = [voice EXCEPT !.isListening = FALSE, !.sessions[r] = "ended"]
    /\ UNCHANGED <<sendVars, page, storage, window, run, input>>

NextVoice ==
    \/ toggleListening
    \/ \E r \in 1..MaxRecordings, t \in Transcripts, isFinal \in BOOLEAN : OnResult(r, t, isFinal)
    \/ \E r \in 1..MaxRecordings : OnError(r)
    \/ \E r \in 1..MaxRecordings : OnEnd(r)

VoiceSpec == Init /\ [][NextVoice]_vars

\* a click on the microphone button
Click == input'.isListening # input.isListening

ClickStartsRecording == (Click /\ ~voice.isListening) => voice'.isListening

\* C30: ChatInput's isListening is true only while the voice module is
\* listening (it is cleared when recognition stops by itself), and one click
\* on the microphone button while the module is not listening starts a
\* recording
C30_IndicatorFollowsVoice ==
    /\ [](input.isListening => voice.isListening)
    /\ [][ClickStartsRecording]_vars

(***************************************************************************)
(* ChatWindow and ChatPage.  A React state update and the effects of the   *)
(* commit it causes (the window's onMessagesChange effect, the page's save *)
(* effect) are one step.                                                   *)
(***************************************************************************)
MaxSends == 2

MaxChats == 2

TitleLength == 50

ApologyText ==
    "I apologize, but I encountered an error processing your request. Please try again."

\* String.prototype.slice(0, n)
slice(s, n) == IF Len(s) > n THEN SubSeq(s, 1, n) ELSE s

\* userMessage of handleSendMessage
UserMessage(id, text) ==
    [id |-> id, role |-> "user", content |-> text, isStreaming |-> FALSE,
     sources |-> Undef, confidence |-> Undef]

\* assistantMessage of handleSendMessage
AssistantMessage(id) ==
    [id |-> id, role |-> "assistant", content |-> "", isStreaming |-> TRUE,
     sources |-> Undef, confidence |-> Undef]

\* the chat of createNewChat and of the load effect
NewChat(id) == [id |-> id, title |-> "New Conversation", messages |-> <<>>, isPinned |-> FALSE]

Ids(list) == {list[k].id : k \in DOMAIN list}

\* chats.find((c) => c.id === currentChatId)?.messages || []
MessagesOf(chats, id) ==
    IF id \in Ids(chats)
    THEN chats[CHOOSE k \in DOMAIN chats :
                   chats[k].id = id /\ \A j \in 1..(k - 1) : chats[j].id # id].messages
    ELSE <<>>

\* mutant: a chunk replaces the text of the message
ApplyChunkReplaces(messages, id, fullContent, chunk) ==
    [k \in 1..Len(messages) |->
        IF messages[k].id = id
        THEN [messages[k] EXCEPT !.content = chunk.content,
                                 !.sources = IF chunk.done THEN chunk.sources ELSE Undef,
                                 !.isStreaming = ~chunk.done]
        ELSE messages[k]]

\* the updater of the for await body
ApplyChunk(messages, id, fullContent, chunk) ==
    [k \in 1..Len(messages) |->
        IF messages[k].id = id
        THEN [messages[k] EXCEPT !.content = fullContent,
                                 !.sources = IF chunk.done THEN chunk.sources ELSE Undef,
                                 !.isStreaming = ~chunk.done]
        ELSE messages[k]]

\* the updater of the catch block
OnStreamError(messages, id) ==
    [k \in 1..Len(messages) |->
        IF messages[k].id = id
        THEN [messages[k] EXCEPT !.content = ApologyText,
                                 !.isStreaming = FALSE,
                                 !.confidence = Str("low")]
        ELSE messages[k]]

\* the auto-generated title
Title(c, messages) ==
    IF c.title = "New Conversation" /\ Len(messages) > 0 /\ messages[1].role = "user"
    THEN slice(messages[1].content, TitleLength)
            \o (IF Len(messages[1].content) > TitleLength THEN "..." ELSE "")
    ELSE c.title

\* mutant: the messages are written to every chat
handleMessagesChangeAll(chats, currentChatId, messages) ==
    IF currentChatId = 0 THEN chats
    ELSE [k \in 1..Len(chats) |->
            [chats[k] EXCEPT !.messages = messages, !.title = Title(chats[k], messages)]]

\* handleMessagesChange of the render in which currentChatId was the id
handleMessagesChange(chats, currentChatId, messages) ==
    IF currentChatId = 0 THEN chats
    ELSE [k \in 1..Len(chats) |->
            IF chats[k].id # currentChatId THEN chats[k]
            ELSE [chats[k] EXCEPT !.messages = messages, !.title = Title(chats[k], messages)]]

\* loadChats
loadChats(st) == IF st.t = "null" THEN <<>> ELSE st.chats

\* mutant: the save effect without its guard
SaveEffectAlways(chats, st) == Stored(chats)

\* useEffect(() => { if (chats.length > 0) saveChats(chats) }, [chats])
SaveEffect(chats, st) == IF Len(chats) > 0 THEN Stored(chats) ELSE st

\* the render condition of the follow-up suggestions
FollowUpsShown(w) ==
    ~w.isStreaming /\ Len(w.messages) > 0 /\ w.messages[Len(w.messages)].role = "assistant"

\* the window after a render: follow-up suggestions whose condition has
\* turned false stay mounted until their exit animation is over
Rerender(old, new) ==
    [new EXCEPT !.chips = IF FollowUpsShown(new) THEN "shown"
                          ELSE IF old.chips # "none" THEN "exiting"
                          ELSE "none"]

\* a ChatWindow instance is mounted for the current chat
MountWindow(pg, w) ==
    Rerender(NoWindow,
             [mounted |-> TRUE, chatId |-> pg.currentChatId,
              messages |-> MessagesOf(pg.chats, pg.currentChatId), isStreaming |-> FALSE,
              chips |-> "none"])

\* the window's effect onMessagesChange?.(messages): the window holds the
\* handleMessagesChange of the render that had its chatId as currentChatId
Committed(pg, w) ==
    IF w.mounted THEN [pg EXCEPT !.chats = handleMessagesChange(@, w.chatId, w.messages)]
    ELSE pg

\* the window is shown (not leaving under AnimatePresence)
Present == window.mounted /\ window.chatId = page.currentChatId

\* a run whose window instance is still mounted
Attached(r) == window.mounted /\ r.attached

\* the runs after the mounted ChatWindow instance has been unmounted
Detached(rs) == [id \in DOMAIN rs |-> [rs[id] EXCEPT !.attached = FALSE]]

\* a continuation of a handleSendMessage run is ready (a microtask: it runs
\* before any timer or user event)
Ready(id) ==
    \/ id = "sent" /\ run[id].phase = "awaitSend" /\ pc = "returned"
    \/ run[id].phase = "consuming" /\ run[id].applied < Len(streams[id].out)

Quiet == ~Ready("sent") /\ ~Ready("earlier")

\* what the user types or clicks
UIQueries == {"Head Pain"}

UIBodies ==
    {Obj(Undef, Undef, Undef, Str("a b"), Arr(<<"src-a">>), Undef, Undef),
     Obj(Undef, Undef, Undef, Str(""), Undef, Undef, Undef)}

EditedTexts == {"edited"}

NewTitles == {"Renamed"}

MaxId(list) == IF Len(list) = 0 THEN 0 ELSE CHOOSE m \in Ids(list) : \A i \in Ids(list) : i <= m

\* the first commit of ChatPage: the load effect, then the save effect of
\* the render that had chats = []
Mount ==
    /\ page.phase = "unmounted"
    /\ \E savedChats \in {loadChats(storage)} :
          page' = IF Len(savedChats) > 0
                  THEN [phase |-> "loading", chats |-> savedChats,
                        currentChatId |-> savedChats[1].id, created |-> MaxId(savedChats)]
                  ELSE [phase |-> "loading", chats |-> <<NewChat(1)>>,
                        currentChatId |-> 1, created |-> 1]
    /\ storage' = SaveEffect(page.chats, storage)
    /\ UNCHANGED <<sendVars, window, run, input, voice>>

\* the render after the load: the save effect, the ChatWindow of the
\* current chat mounts and its effect reports its messages
Render ==
    /\ page.phase = "loading"
    /\ \E w \in {MountWindow(page, window)} :
          /\ window' = w
          /\ page' = [Committed(page, w) EXCEPT !.phase = "ready"]
          /\ storage' = SaveEffect(page'.chats, SaveEffect(page.chats, storage))
    /\ UNCHANGED <<sendVars, run, input, voice>>

\* createNewChat
createNewChat ==
    /\ page.phase = "ready" /\ Quiet
    /\ page.created < MaxChats
    /\ page' = [page EXCEPT !.chats = <<NewChat(page.created + 1)>> \o @,
                            !.currentChatId = page.created + 1,
                            !.created = @ + 1]
    /\ storage' = SaveEffect(page'.chats, storage)
    /\ UNCHANGED <<sendVars, window, run, input, voice>>

\* selectChat, from the sidebar's list
selectChat(chatId) ==
    /\ page.phase = "ready" /\ Quiet
    /\ chatId \in Ids(page.chats)
    /\ page' = [page EXCEPT !.currentChatId = chatId]
    /\ UNCHANGED <<sendVars, storage, window, run, input, voice>>

\* mutant: deleting the current chat leaves currentChatId as it is
deleteChatKeepsCurrent(pg, chatId) ==
    [pg EXCEPT !.chats = SelectSeq(@, LAMBDA c : c.id # chatId)]

\* the state after deleteChat(chatId): its updater, and the updates the
\* updater queues (setCurrentChatId, or createNewChat's on the filtered list)
deleteChat(pg, chatId) ==
    LET filtered == SelectSeq(pg.chats, LAMBDA c : c.id # chatId)
    IN  IF pg.currentChatId = chatId /\ Len(filtered) > 0
        THEN [pg EXCEPT !.chats = filtered, !.currentChatId = filtered[1].id]
        ELSE IF Len(filtered) = 0
        THEN [pg EXCEPT !.chats = <<NewChat(pg.created + 1)>> \o filtered,
                        !.currentChatId = pg.created + 1,
                        !.created = @ + 1]
        ELSE [pg EXCEPT !.chats = filtered]

\* the sidebar's confirmDelete
DeleteChat(chatId) ==
    /\ page.phase = "ready" /\ Quiet
    /\ chatId \in Ids(page.chats)
    /\ page.created <= MaxChats
    /\ page' = deleteChat(page, chatId)
    /\ storage' = SaveEffect(page'.chats, storage)
    /\ UNCHANGED <<sendVars, window, run, input, voice>>

\* renameChat
renameChat(chatId, newTitle) ==
    /\ page.phase = "ready" /\ Quiet
    /\ chatId \in Ids(page.chats)
    /\ page' = [page EXCEPT !.chats = [k \in 1..Len(@) |->
                               IF @[k].id = chatId THEN [@[k] EXCEPT !.title = newTitle]
                               ELSE @[k]]]
    /\ storage' = SaveEffect(page'.chats, storage)
    /\ UNCHANGED <<sendVars, window, run, input, voice>>

\* togglePinChat
togglePinChat(chatId) ==
    /\ page.phase = "ready" /\ Quiet
    /\ chatId \in Ids(page.chats)
    /\ page' = [page EXCEPT !.chats = [k \in 1..Len(@) |->
                               IF @[k].id = chatId THEN [@[k] EXCEPT !.isPinned = ~@]
                               ELSE @[k]]]
    /\ storage' = SaveEffect(page'.chats, storage)
    /\ UNCHANGED <<sendVars, window, run, input, voice>>

\* the exit animation of the leaving ChatWindow is over (AnimatePresence
\* mode="wait"): it unmounts and the window of the current chat mounts
ExitComplete ==
    /\ page.phase = "ready" /\ Quiet
    /\ window.mounted /\ window.chatId # page.currentChatId
    /\ \E w \in {MountWindow(page, window)} :
          /\ window' = w
          /\ page' = Committed(page, w)
          /\ storage' = SaveEffect(page'.chats, storage)
    /\ run' = Detached(run)
    /\ UNCHANGED <<sendVars, input, voice>>

\* the exit animation of the follow-up suggestions is over
ChipsExitComplete ==
    /\ Quiet
    /\ window.chips = "exiting"
    /\ window' = [window EXCEPT !.chips = "none"]
    /\ UNCHANGED <<sendVars, page, storage, run, input, voice>>

\* handleSendMessage(content) up to await sendMessage(content, chatId),
\* with sendMessage up to its await fetch(...).  The run of an earlier call
\* is kept as the earlier run, with its stream
handleSendMessage(q) ==
    /\ window.mounted /\ Quiet
    /\ pc \in {"idle", "returned"}
    /\ run.earlier.phase \in {"none", "finished"}
    /\ Len(requests) < MaxSends
    /\ \E w \in {Rerender(window,
                          [window EXCEPT
                              !.messages = @ \o <<UserMessage(2 * Len(requests) + 1, q),
                                                 AssistantMessage(2 * Len(requests) + 2)>>,
                              !.isStreaming = TRUE])} :
          /\ window' = w
          /\ page' = Committed(page, w)
          /\ storage' = SaveEffect(page'.chats, storage)
    /\ run' = [sent |-> [phase |-> "awaitSend", attached |-> TRUE,
                         chatId |-> window.chatId,
                         assistantMessageId |-> 2 * Len(requests) + 2,
                         fullContent |-> "", applied |-> 0],
               earlier |-> run.sent]
    /\ pc' = "fetch"
    /\ content' = q
    /\ response' = NoResponse
    /\ data' = Undef
    /\ outcome' = "none"
    /\ requests' = Append(requests, Request(q))
    /\ streams' = [streams EXCEPT !.earlier = streams.sent, !.sent = NoStream]
    /\ UNCHANGED <<log, simulatorStarts, input, voice>>

\* ChatInput.handleSend on a typed message
handleSend(text) ==
    /\ trim(text) # ""
    /\ ~window.isStreaming
    /\ handleSendMessage(trim(text))

\* a click on a suggestion of the empty state (rendered when
\* messages.length === 0)
ClickSuggestion(q) ==
    /\ Len(window.messages) = 0
    /\ handleSendMessage(q)

\* handleFollowUp: a click on a follow-up suggestion, shown or still exiting
handleFollowUp(q) ==
    /\ window.chips # "none"
    /\ handleSendMessage(q)

\* handleEditMessage, from the edit box of a user message
handleEditMessage(messageId, newContent) ==
    /\ window.mounted /\ Quiet
    /\ \E k \in DOMAIN window.messages :
          /\ window.messages[k].id = messageId
          /\ window.messages[k].role = "user"
          /\ ~window.messages[k].isStreaming
    /\ trim(newContent) # ""
    /\ \E w \in {Rerender(window,
                          [window EXCEPT !.messages = [k \in 1..Len(@) |->
                              IF @[k].id = messageId
                              THEN [@[k] EXCEPT !.content = trim(newContent)]
                              ELSE @[k]]])} :
          /\ window' = w
          /\ page' = Committed(page, w)
          /\ storage' = SaveEffect(page'.chats, storage)
    /\ UNCHANGED <<sendVars, run, input, voice>>

\* handleDeleteMessage, from the delete button of a user message
handleDeleteMessage(messageId) ==
    /\ window.mounted /\ Quiet
    /\ \E k \in DOMAIN window.messages :
          /\ window.messages[k].id = messageId
          /\ window.messages[k].role = "user"
          /\ ~window.messages[k].isStreaming
    /\ \E w \in {Rerender(window,
                          [window EXCEPT
                              !.messages = SelectSeq(@, LAMBDA m : m.id # messageId)])} :
          /\ window' = w
          /\ page' = Committed(page, w)
          /\ storage' = SaveEffect(page'.chats, storage)
    /\ UNCHANGED <<sendVars, run, input, voice>>

\* mutant: the finally block leaves isStreaming set
FinallyKeepsStreaming(w) == w

\* finally { setIsStreaming(false) }
Finally(w) == [w EXCEPT !.isStreaming = FALSE]

\* the run after next() gave res: the loop goes on, or ends
Pulled(r, res) == [r EXCEPT !.phase = IF res.ret THEN "finished" ELSE "consuming"]

\* the window after a step of a run: state updates of a run whose window
\* instance is no longer mounted are dropped
Updated(r, w, res) ==
    IF Attached(r) THEN Rerender(window, IF res.ret THEN Finally(w) ELSE w) ELSE window

\* sendMessage has returned: fullContent = "" and the for await loop calls
\* next() for the first time
StartConsume ==
    /\ run.sent.phase = "awaitSend" /\ pc = "returned"
    /\ \E r \in 0..(RandSteps - 1) :
          \E res \in {GenNext(streams.sent.gen, r)} :
             /\ streams' = [streams EXCEPT !.sent = Step(@, res, @.timers)]
             /\ run' = [run EXCEPT !.sent = Pulled(@, res)]
             /\ window' = Updated(run.sent, window, res)
    /\ UNCHANGED <<pc, content, response, data, outcome, log, requests, simulatorStarts,
                   page, storage, input, voice>>

\* the loop body on the next chunk, and the next() call after it
Consume(id) ==
    /\ run[id].phase = "consuming"
    /\ run[id].applied < Len(streams[id].out)
    /\ \E r \in 0..(RandSteps - 1) :
          \E res \in {GenNext(streams[id].gen, r)},
             chunk \in {streams[id].out[run[id].applied + 1]} :
             \E fullContent \in {run[id].fullContent \o chunk.content} :
                /\ streams' = [streams EXCEPT ![id] = Step(@, res, @.timers)]
                /\ run' = [run EXCEPT ![id] = [Pulled(@, res) EXCEPT
                                                  !.fullContent = fullContent,
                                                  !.applied = @ + 1]]
                /\ window' = Updated(run[id],
                                     [window EXCEPT !.messages =
                                         ApplyChunk(@, run[id].assistantMessageId,
                                                    fullContent, chunk)],
                                     res)
    /\ page' = IF Attached(run[id]) THEN Committed(page, window') ELSE page
    /\ storage' = IF Attached(run[id]) THEN SaveEffect(page'.chats, storage) ELSE storage
    /\ UNCHANGED <<pc, content, response, data, outcome, log, requests, simulatorStarts,
                   input, voice>>

\* the events of the event loop wait for the ready continuations
WhenQuiet(A) == Quiet /\ A

NextWindow ==
    \/ Mount
    \/ Render
    \/ \E text \in UIQueries : handleSend(text)
    \/ \E q \in UIQueries : ClickSuggestion(q)
    \/ \E q \in UIQueries : handleFollowUp(q)
    \/ \E id \in Ids(window.messages), text \in EditedTexts : handleEditMessage(id, text)
    \/ \E id \in Ids(window.messages) : handleDeleteMessage(id)
    \/ ChipsExitComplete
    \/ WhenQuiet(\E status \in {200} : FetchResolves(status))
    \/ WhenQuiet(\E d \in UIBodies : JsonResolves(d))
    \/ StartConsume
    \/ \E id \in {"sent", "earlier"} : Consume(id)
    \/ \E id \in {"sent", "earlier"} : WhenQuiet(TimerFires(id))

\* what an earlier visit left in localStorage: nothing, or its chats
Storages ==
    {NoItem,
     Stored(<<[id |-> 1, title |-> "hello", isPinned |-> FALSE,
               messages |-> <<UserMessage(101, "hello"),
                              [AssistantMessage(102) EXCEPT
                                  !.content = "hi", !.isStreaming = FALSE,
                                  !.sources = Arr(<<>>)]>>]>>)}

InitPage ==
    /\ pc = "idle"
    /\ content = ""
    /\ response = NoResponse
    /\ data = Undef
    /\ outcome = "none"
    /\ log = <<>>
    /\ streams = [sent |-> NoStream, direct |-> NoStream, earlier |-> NoStream]
    /\ requests = <<>>
    /\ simulatorStarts = 0
    /\ page = NoPage
    /\ storage \in Storages
    /\ window = NoWindow
    /\ run = [sent |-> NoRun, earlier |-> NoRun]
    /\ input = NoInput
    /\ voice = NoVoice

WindowSpec == InitPage /\ [][NextWindow]_vars

\* a run that has not left its loop
Active(r) == r.phase \in {"awaitSend", "consuming"}

StartsWhileIdle == requests' # requests => ~window.isStreaming

\* C25: a ChatWindow consumes at most one response stream at a time, and no
\* request starts while the window's isStreaming is true
C25_OneStreamPerWindow ==
    /\ [](~(Active(run.sent) /\ Active(run.earlier)
             /\ Attached(run.sent) /\ Attached(run.earlier)))
    /\ [][StartsWhileIdle]_vars

\* the message of a run in the window's list
MessageOf(r, messages) ==
    messages[CHOOSE k \in DOMAIN messages : messages[k].id = r.assistantMessageId]

\* the chunks of a stream that its run has applied
AppliedChunks(id) == SubSeq(streams[id].out, 1, run[id].applied)

DoneApplied(id) == \E k \in 1..run[id].applied : streams[id].out[k].done

\* the message of a run shows what the run has applied
ShowsApplied(id) ==
    (run[id].phase \in {"consuming", "finished"} /\ Attached(run[id])) =>
        /\ run[id].assistantMessageId \in Ids(window.messages)
        /\ \E m \in {MessageOf(run[id], window.messages)} :
              /\ m.content = Joined(AppliedChunks(id))
              /\ m.isStreaming = ~DoneApplied(id)
              /\ m.sources = IF DoneApplied(id)
                             THEN streams[id].out[run[id].applied].sources
                             ELSE Undef

\* applying a chunk appends to the run's message and changes no other one
AppliesToOwn(id) ==
    (run[id].phase = "consuming" /\ run'[id].applied = run[id].applied + 1
        /\ Attached(run[id])) =>
        /\ Len(window'.messages) = Len(window.messages)
        /\ \A k \in DOMAIN window.messages :
              IF window.messages[k].id = run[id].assistantMessageId
              THEN /\ IsPrefix(window.messages[k].content, window'.messages[k].content)
                   /\ window'.messages[k].content =
                         window.messages[k].content
                            \o streams[id].out[run[id].applied + 1].content
              ELSE window'.messages[k] = window.messages[k]

AppliesChunks == AppliesToOwn("sent") /\ AppliesToOwn("earlier")

\* C23: after each applied chunk the assistant message's content is the
\* concatenation of the chunk texts applied so far, isStreaming is true
\* exactly while no done chunk has been applied, sources are unset until the
\* terminal chunk sets them, and no other message is changed
C23_MessageFollowsChunks ==
    /\ [](ShowsApplied("sent") /\ ShowsApplied("earlier"))
    /\ [][AppliesChunks]_vars

C23_Witness ==
    /\ run.sent.applied = 3
    /\ Attached(run.sent)
    /\ Len(window.messages) >= 2
    /\ MessageOf(run.sent, window.messages).content = "a b"
    /\ ~MessageOf(run.sent, window.messages).isStreaming
    /\ MessageOf(run.sent, window.messages).sources = Arr(<<"src-a">>)

(***************************************************************************)
(* The continuations of a run are run, its timers fire, and the fetch and  *)
(* the body of its response settle.                                        *)
(***************************************************************************)
WindowLiveSpec ==
    /\ WindowSpec
    /\ WF_vars(WhenQuiet(\E status \in {200} : FetchResolves(status)))
    /\ WF_vars(WhenQuiet(\E d \in UIBodies : JsonResolves(d)))
    /\ WF_vars(StartConsume)
    /\ WF_vars(Consume("sent"))
    /\ WF_vars(Consume("earlier"))
    /\ WF_vars(WhenQuiet(TimerFires("sent")))
    /\ WF_vars(WhenQuiet(TimerFires("earlier")))

\* what the catch and finally blocks would leave of a run in progress
ErrorPathEnds(id) ==
    (Active(run[id]) /\ Attached(run[id])) =>
        \E w \in {Finally([window EXCEPT
                              !.messages = OnStreamError(@, run[id].assistantMessageId)])} :
           /\ ~w.isStreaming
           /\ MessageOf(run[id], w.messages).content = ApologyText
           /\ ~MessageOf(run[id], w.messages).isStreaming
           /\ MessageOf(run[id], w.messages).confidence = Str("low")

NextPage ==
    \/ NextWindow
    \/ createNewChat
    \/ \E chatId \in Ids(page.chats) : selectChat(chatId)
    \/ \E chatId \in Ids(page.chats) : DeleteChat(chatId)
    \/ ExitComplete

PageSpec == InitPage /\ [][NextPage]_vars

(***************************************************************************)
(* ChatPage and its sidebar alone: every operation on the chat list.       *)
(***************************************************************************)
NextSidebar ==
    \/ Mount
    \/ Render
    \/ createNewChat
    \/ \E chatId \in Ids(page.chats) : selectChat(chatId)
    \/ \E chatId \in Ids(page.chats) : DeleteChat(chatId)
    \/ \E chatId \in Ids(page.chats), newTitle \in NewTitles : renameChat(chatId, newTitle)
    \/ \E chatId \in Ids(page.chats) : togglePinChat(chatId)
    \/ ExitComplete

SidebarSpec == InitPage /\ [][NextSidebar]_vars

\* a message is finalized: isStreaming cleared and the sources of the
\* stream's terminal chunk attached
Finalized(m, id) ==
    /\ ~m.isStreaming
    /\ m.sources = streams[id].out[Len(streams[id].out)].sources

FinalizedIn(messages, id) ==
    run[id].assistantMessageId \in Ids(messages) =>
        Finalized(MessageOf(run[id], messages), id)

FinalizedEverywhere(id) ==
    run[id].phase = "finished" =>
        /\ (window.mounted /\ window.chatId = run[id].chatId) =>
              FinalizedIn(window.messages, id)
        /\ FinalizedIn(MessagesOf(page.chats, run[id].chatId), id)
        /\ FinalizedIn(MessagesOf(loadChats(storage), run[id].chatId), id)

\* C22: every assistant message created by handleSendMessage is finalized
\* (isStreaming cleared, the terminal chunk's sources attached) in the
\* window's list and in the owning chat kept and saved by ChatPage: once
\* the run has consumed its stream to the end, at the latest
C22_EveryMessageFinalized == FinalizedEverywhere("sent") /\ FinalizedEverywhere("earlier")

\* the ids of the two messages a run created
RunMessages(r) == {r.assistantMessageId - 1, r.assistantMessageId}

\* no message of a run is in a chat other than the run's
OnlyInOwnChat(r, chats) ==
    \A k \in DOMAIN chats :
       chats[k].id # r.chatId => Ids(chats[k].messages) \cap RunMessages(r) = {}

StoredInOwnChat(id) ==
    run[id].phase # "none" =>
        /\ OnlyInOwnChat(run[id], page.chats)
        /\ OnlyInOwnChat(run[id], loadChats(storage))
        /\ (window.mounted /\ window.chatId # run[id].chatId) =>
              Ids(window.messages) \cap RunMessages(run[id]) = {}

\* no message is in two chats
NoSharedMessage ==
    \A j, k \in DOMAIN page.chats :
       j # k => Ids(page.chats[j].messages) \cap Ids(page.chats[k].messages) = {}

\* a step that neither creates, selects nor deletes a chat changes no chat
\* but the one of the mounted window
OthersUnchanged ==
    (/\ page.phase = "ready"
     /\ page'.currentChatId = page.currentChatId
     /\ Len(page'.chats) = Len(page.chats)
     /\ page'.created = page.created) =>
        \A k \in DOMAIN page.chats :
           page.chats[k].id # window.chatId => page'.chats[k] = page.chats[k]

\* C27: the messages of a request issued in chat A are stored only in chat
\* A, whatever chat is switched to, created or deleted while the response
\* streams, and handleMessagesChange changes no chat but its own
C27_MessagesStayInChat ==
    /\ [](StoredInOwnChat("sent") /\ StoredInOwnChat("earlier") /\ NoSharedMessage)
    /\ [][OthersUnchanged]_vars

C27_Witness ==
    /\ window.mounted
    /\ window.chatId # run.sent.chatId
    /\ run.sent.phase = "finished"
    /\ run.sent.applied = 3
    /\ Len(page.chats) = 2
    /\ run.sent.chatId \in Ids(page.chats)

\* the chat list is non-empty and the current chat is in it
CurrentValid ==
    page.phase # "unmounted" =>
        (Len(page.chats) > 0 /\ page.currentChatId \in Ids(page.chats))

\* a step that removes the current chat selects the first remaining chat,
\* or makes and selects a new "New Conversation" chat if none remains
DeleteSelects ==
    (page.phase = "ready" /\ page.currentChatId \notin Ids(page'.chats)) =>
        \E filtered \in {SelectSeq(page.chats, LAMBDA c : c.id # page.currentChatId)} :
           IF Len(filtered) > 0
           THEN page'.chats = filtered /\ page'.currentChatId = filtered[1].id
           ELSE /\ Len(page'.chats) = 1
                /\ page'.chats[1].title = "New Conversation"
                /\ page'.chats[1].messages = <<>>
                /\ page'.chats[1].id \notin Ids(page.chats)
                /\ page'.currentChatId = page'.chats[1].id

NeverStoresEmpty == storage.t = "item" => Len(storage.chats) > 0

\* a step that changes the chats key writes a non-empty list, and not in
\* the commit that loads it; that commit takes over the stored chats
WritesAfterLoad ==
    /\ storage' # storage =>
          (page.phase # "unmounted" /\ storage'.t = "item" /\ Len(storage'.chats) > 0
             /\ storage'.chats = page'.chats)
    /\ (page.phase = "unmounted" /\ page'.phase # "unmounted") =>
          (storage' = storage /\ (storage.t = "item" => page'.chats = storage.chats))

\* C29: ChatPage never writes an empty chat list to storage and never
\* writes the chats key before the initial load has read it: on mount the
\* stored chats are loaded first, saveChats runs only for a non-empty chat
\* list, and previously stored chats are not erased by the empty initial
\* state or while the last chat is being deleted
C29_StoredChatsKept ==
    /\ [](NeverStoresEmpty)
    /\ [][WritesAfterLoad]_vars

C29_Witness ==
    /\ page.phase = "loading"
    /\ storage.t = "item"
    /\ Len(storage.chats) > 0
    /\ page.chats = storage.chats

====
